---- MODULE Spec2Model ----
(***************************************************************************)
(* Model of the order backend: the FastAPI handlers of main.py over the    *)
(* SQLite file db.sqlite, and the schema + bulk import of init_db.py.      *)
(*                                                                         *)
(* The two files disagree about the shape of the orders table.  main.py    *)
(* reads and writes orders(id, customer_id, item_id, quantity);            *)
(* init_db.py creates orders(id, timestamp, cust_id, notes) together with  *)
(* item_list(order_id, item_id).  The variable schema records which of the *)
(* two shapes db.sqlite has; a statement that names a column the table     *)
(* does not have raises sqlite3.OperationalError and writes nothing.       *)
(*                                                                         *)
(* Neither file issues PRAGMA foreign_keys = ON, so SQLite does not        *)
(* enforce the FOREIGN KEY clauses of init_db.py.                          *)
(***************************************************************************)
EXTENDS Integers, Sequences, FiniteSets

\* ---------------------------------------------------------------- bounds
MaxCustId == 2
MaxItemId == 1
MaxOrderId == 2
MaxLineRowid == 2
MaxBatch == 2
MaxRecs == 2
MaxLines == 1

\* ---------------------------------------------------------------- inputs
\* request bodies Customer(name, phone) and Item(name, price)
CustomerInputs ==
    { [name |-> "Alice", phone |-> "5551234"],
      [name |-> "Bob",   phone |-> "5559999"] }

\* prices are REAL values; 999 and 500 stand for 9.99 and 5.00
ItemInputs ==
    { [name |-> "Widget", price |-> 999],
      [name |-> "Gadget", price |-> 500] }

Quantities == {1}

\* request body Order(customer_id, item_id, quantity)
OrderInputs ==
    [customer_id : 1..MaxCustId, item_id : 1..MaxItemId, quantity : Quantities]

SeqsUpTo(S, lo, hi) == UNION { [1..n -> S] : n \in lo..hi }

\* request body BulkOrder(items)
BulkInputs == SeqsUpTo(OrderInputs, 0, MaxBatch)

\* the order records of example_orders.json
ImportRecords ==
    { [phone |-> c.phone, name |-> c.name, timestamp |-> "ts", notes |-> "n",
       items |-> its] : c \in CustomerInputs, its \in SeqsUpTo(ItemInputs, 1, MaxLines) }

ImportInputs == SeqsUpTo(ImportRecords, 0, MaxRecs)

\* ---------------------------------------------------------------- state
VARIABLES schema, customers, items, orders, item_list, last, resp

vars == <<schema, customers, items, orders, item_list, last, resp>>
store == <<customers, items, orders, item_list>>

\* ---------------------------------------------------------------- SQL helpers
Max(S) == CHOOSE m \in S : \A x \in S : x <= m
Range(s) == { s[i] : i \in 1..Len(s) }

Ids(T) == { r.id : r \in T }

\* INTEGER PRIMARY KEY without AUTOINCREMENT: one more than the largest rowid
NextRowidByCount(ids) == Cardinality(ids) + 1
NextRowid(ids) == IF ids = {} THEN 1 ELSE Max(ids) + 1

\* SELECT * FROM t WHERE id=?
SelectById(T, id) == { r \in T : r.id = id }

\* DELETE FROM t WHERE id=?
DeleteById(T, id) == { r \in T : r.id # id }

\* cursor.rowcount of an UPDATE/DELETE ... WHERE id=?
Rowcount(T, id) == Cardinality(SelectById(T, id))

\* if cur.rowcount == 0: raise HTTPException(404)
StatusAlwaysOk(rowcount) == "200"
StatusOfRowcount(rowcount) == IF rowcount = 0 THEN "404" ELSE "200"

\* fetchone(): the first row of a table scan, i.e. the smallest rowid
FetchOne(rows) == CHOOSE r \in rows : \A q \in rows : r.id <= q.id

NoBody == [none |-> TRUE]

\* ---------------------------------------------------------------- customers
create_customer(c) ==
    /\ NextRowid(Ids(customers)) <= MaxCustId
    /\ LET customer_id == NextRowid(Ids(customers)) IN
         /\ customers' = customers \cup
                { [id |-> customer_id, name |-> c.name, phone |-> c.phone] }
         /\ resp' = [status |-> "200",
                     body |-> [id |-> customer_id, name |-> c.name, phone |-> c.phone]]
    /\ last' = [op |-> "create_customer", arg |-> c]
    /\ UNCHANGED <<schema, items, orders, item_list>>

ReadCustomer(T, customer_id) ==
    LET rows == SelectById(T, customer_id) IN
      IF rows # {}
      THEN LET row == FetchOne(rows) IN
             [status |-> "200",
              body |-> [id |-> row.id, name |-> row.name, phone |-> row.phone]]
      ELSE [status |-> "404", body |-> NoBody]

read_customer(customer_id) ==
    /\ resp' = ReadCustomer(customers, customer_id)
    /\ last' = [op |-> "read_customer", arg |-> customer_id]
    /\ UNCHANGED <<schema, customers, items, orders, item_list>>

update_customer(customer_id, c) ==
    /\ customers' = { IF r.id = customer_id
                      THEN [id |-> r.id, name |-> c.name, phone |-> c.phone]
                      ELSE r : r \in customers }
    /\ resp' = IF StatusOfRowcount(Rowcount(customers, customer_id)) = "404"
               THEN [status |-> "404", body |-> NoBody]
               ELSE [status |-> "200",
                     body |-> [id |-> customer_id, name |-> c.name, phone |-> c.phone]]
    /\ last' = [op |-> "update_customer", arg |-> <<customer_id, c>>]
    /\ UNCHANGED <<schema, items, orders, item_list>>

delete_customer(customer_id) ==
    /\ customers' = DeleteById(customers, customer_id)
    /\ resp' = [status |-> StatusOfRowcount(Rowcount(customers, customer_id)),
                body |-> NoBody]
    /\ last' = [op |-> "delete_customer", arg |-> customer_id]
    /\ UNCHANGED <<schema, items, orders, item_list>>

\* ---------------------------------------------------------------- items
create_item(it) ==
    /\ NextRowid(Ids(items)) <= MaxItemId
    /\ LET item_id == NextRowid(Ids(items)) IN
         /\ items' = items \cup
                { [id |-> item_id, name |-> it.name, price |-> it.price] }
         /\ resp' = [status |-> "200",
                     body |-> [id |-> item_id, name |-> it.name, price |-> it.price]]
    /\ last' = [op |-> "create_item", arg |-> it]
    /\ UNCHANGED <<schema, customers, orders, item_list>>

ReadItem(T, item_id) ==
    LET rows == SelectById(T, item_id) IN
      IF rows # {}
      THEN LET row == FetchOne(rows) IN
             [status |-> "200",
              body |-> [id |-> row.id, name |-> row.name, price |-> row.price]]
      ELSE [status |-> "404", body |-> NoBody]

read_item(item_id) ==
    /\ resp' = ReadItem(items, item_id)
    /\ last' = [op |-> "read_item", arg |-> item_id]
    /\ UNCHANGED <<schema, customers, items, orders, item_list>>

update_item(item_id, it) ==
    /\ items' = { IF r.id = item_id
                  THEN [id |-> r.id, name |-> it.name, price |-> it.price]
                  ELSE r : r \in items }
    /\ resp' = IF StatusOfRowcount(Rowcount(items, item_id)) = "404"
               THEN [status |-> "404", body |-> NoBody]
               ELSE [status |-> "200",
                     body |-> [id |-> item_id, name |-> it.name, price |-> it.price]]
    /\ last' = [op |-> "update_item", arg |-> <<item_id, it>>]
    /\ UNCHANGED <<schema, customers, orders, item_list>>

delete_item(item_id) ==
    /\ items' = DeleteById(items, item_id)
    /\ resp' = [status |-> StatusOfRowcount(Rowcount(items, item_id)),
                body |-> NoBody]
    /\ last' = [op |-> "delete_item", arg |-> item_id]
    /\ UNCHANGED <<schema, customers, orders, item_list>>

\* ---------------------------------------------------------------- orders
\* INSERT INTO orders (customer_id, item_id, quantity) VALUES (?, ?, ?)
InsertOrder(O, order) ==
    O \cup { [id |-> NextRowid(Ids(O)), customer_id |-> order.customer_id,
              item_id |-> order.item_id, quantity |-> order.quantity] }

create_order(order) ==
    /\ IF schema = "api"
       THEN /\ NextRowid(Ids(orders)) <= MaxOrderId
            /\ orders' = InsertOrder(orders, order)
            /\ resp' = [status |-> "200",
                        body |-> [id |-> NextRowid(Ids(orders)),
                                  customer_id |-> order.customer_id,
                                  item_id |-> order.item_id,
                                  quantity |-> order.quantity]]
       ELSE \* table orders has no column named customer_id
            /\ orders' = orders
            /\ resp' = [status |-> "500", body |-> NoBody]
    /\ last' = [op |-> "create_order", arg |-> order]
    /\ UNCHANGED <<schema, customers, items, item_list>>

\* SELECT o.id, c.name, i.name, o.quantity FROM orders o
\*   JOIN customers c ON o.customer_id = c.id JOIN items i ON o.item_id = i.id
\*   WHERE o.id=?
OrderJoin(C, I, O, order_id) ==
    { [id |-> o.id, customer_name |-> c.name, item_name |-> i.name,
       quantity |-> o.quantity] :
        <<o, c, i>> \in { t \in SelectById(O, order_id) \X C \X I :
                            /\ t[1].customer_id = t[2].id
                            /\ t[1].item_id = t[3].id } }

ReadOrder(sch, C, I, O, order_id) ==
    IF sch = "api"
    THEN LET rows == OrderJoin(C, I, O, order_id) IN
           IF rows # {}
           THEN [status |-> "200", body |-> FetchOne(rows)]
           ELSE [status |-> "404", body |-> NoBody]
    ELSE \* no such column: o.quantity
         [status |-> "500", body |-> NoBody]

read_order(order_id) ==
    /\ resp' = ReadOrder(schema, customers, items, orders, order_id)
    /\ last' = [op |-> "read_order", arg |-> order_id]
    /\ UNCHANGED <<schema, customers, items, orders, item_list>>

delete_order(order_id) ==
    /\ orders' = DeleteById(orders, order_id)
    /\ resp' = [status |-> StatusOfRowcount(Rowcount(orders, order_id)),
                body |-> NoBody]
    /\ last' = [op |-> "delete_order", arg |-> order_id]
    /\ UNCHANGED <<schema, customers, items, item_list>>

\* ---------------------------------------------------------------- bulk orders
\* for order in bulk_order.items: cur.execute("INSERT INTO orders ...")
RECURSIVE InsertOrders(_, _)
InsertOrders(O, batch) ==
    IF batch = <<>> THEN O
    ELSE InsertOrders(InsertOrder(O, Head(batch)), Tail(batch))

create_bulk_order(bulk_order) ==
    /\ IF schema = "api" \/ bulk_order = <<>>
       THEN /\ \A id \in Ids(InsertOrders(orders, bulk_order)) : id <= MaxOrderId
            /\ orders' = InsertOrders(orders, bulk_order)
            /\ resp' = [status |-> "200", body |-> [count |-> Len(bulk_order)]]
       ELSE \* the first INSERT raises; con.commit() is never reached
            /\ orders' = orders
            /\ resp' = [status |-> "500", body |-> NoBody]
    /\ last' = [op |-> "create_bulk_order", arg |-> bulk_order]
    /\ UNCHANGED <<schema, customers, items, item_list>>

\* ---------------------------------------------------------------- bulk import
\* keys of a dict filled by d[k] = v in sequence order: first occurrence order
RECURSIVE DictKeys(_)
DictKeys(ks) ==
    IF ks = <<>> THEN <<>>
    ELSE LET d == DictKeys(SubSeq(ks, 1, Len(ks) - 1))
             k == ks[Len(ks)]
         IN IF k \in Range(d) THEN d ELSE Append(d, k)

\* value of key k in that dict: the last assignment wins
DictValue(ks, vs, k) == vs[Max({ i \in 1..Len(ks) : ks[i] = k })]

\* customers[order['phone']] = order['name']
CustomersDict(data) ==
    LET ks == [i \in 1..Len(data) |-> data[i].phone]
        vs == [i \in 1..Len(data) |-> data[i].name]
    IN [j \in 1..Len(DictKeys(ks)) |->
          [phone |-> DictKeys(ks)[j], name |-> DictValue(ks, vs, DictKeys(ks)[j])]]

RECURSIVE AllItems(_)
AllItems(data) ==
    IF data = <<>> THEN <<>> ELSE data[1].items \o AllItems(Tail(data))

\* items[item['name']] = item['price']
ItemsDict(data) ==
    LET all == AllItems(data)
        ks == [i \in 1..Len(all) |-> all[i].name]
        vs == [i \in 1..Len(all) |-> all[i].price]
    IN [j \in 1..Len(DictKeys(ks)) |->
          [name |-> DictKeys(ks)[j], price |-> DictValue(ks, vs, DictKeys(ks)[j])]]

\* for phone, name in customers.items(): INSERT INTO customers (name, phone)
RECURSIVE InsertCustomers(_, _)
InsertCustomers(C, d) ==
    IF d = <<>> THEN C
    ELSE InsertCustomers(
           C \cup { [id |-> NextRowid(Ids(C)), name |-> d[1].name, phone |-> d[1].phone] },
           Tail(d))

\* for name, price in items.items(): INSERT INTO items (name, price)
RECURSIVE InsertItems(_, _)
InsertItems(I, d) ==
    IF d = <<>> THEN I
    ELSE InsertItems(
           I \cup { [id |-> NextRowid(Ids(I)), name |-> d[1].name, price |-> d[1].price] },
           Tail(d))

\* SELECT id FROM customers WHERE phone=?  ... fetchone()[0]
CustIdByPhone(C, phone) == FetchOne({ r \in C : r.phone = phone }).id

\* SELECT id FROM items WHERE name=?  ... fetchone()[0]
ItemIdByName(I, name) == FetchOne({ r \in I : r.name = name }).id

\* for item in order['items']: INSERT INTO item_list (order_id, item_id)
RECURSIVE InsertLines(_, _, _, _)
InsertLines(L, I, order_id, its) ==
    IF its = <<>> THEN L
    ELSE InsertLines(
           L \cup { [rowid |-> NextRowid({ l.rowid : l \in L }),
                     order_id |-> order_id,
                     item_id |-> ItemIdByName(I, its[1].name)] },
           I, order_id, Tail(its))

\* for order in data: INSERT INTO orders (timestamp, cust_id, notes); lines
\* result: <<orders, item_list>>
RECURSIVE InsertImportOrders(_, _, _, _, _)
InsertImportOrders(O, L, C, I, data) ==
    IF data = <<>> THEN <<O, L>>
    ELSE LET order == data[1]
             order_id == NextRowid(Ids(O))
         IN InsertImportOrders(
              O \cup { [id |-> order_id, timestamp |-> order.timestamp,
                        cust_id |-> CustIdByPhone(C, order.phone),
                        notes |-> order.notes] },
              InsertLines(L, I, order_id, order.items),
              C, I, Tail(data))

populate_database(data) ==
    /\ IF schema = "import" \/ data = <<>>
       THEN LET C == InsertCustomers(customers, CustomersDict(data))
                I == InsertItems(items, ItemsDict(data))
                OL == InsertImportOrders(orders, item_list, C, I, data)
            IN /\ \A id \in Ids(C) : id <= MaxCustId
               /\ \A id \in Ids(I) : id <= MaxItemId
               /\ \A id \in Ids(OL[1]) : id <= MaxOrderId
               /\ \A l \in OL[2] : l.rowid <= MaxLineRowid
               /\ customers' = C
               /\ items' = I
               /\ orders' = OL[1]
               /\ item_list' = OL[2]
               /\ resp' = [status |-> "done", body |-> NoBody]
       ELSE \* table orders has no column named timestamp: the with block
            \* rolls the customer and item inserts back
            /\ UNCHANGED <<customers, items, orders, item_list>>
            /\ resp' = [status |-> "OperationalError", body |-> NoBody]
    /\ last' = [op |-> "populate_database", arg |-> data]
    /\ UNCHANGED schema

\* ---------------------------------------------------------------- specification
\* initialize_schema on a fresh db.sqlite: every table exists and is empty
InitTables ==
    /\ customers = {}
    /\ items = {}
    /\ orders = {}
    /\ item_list = {}
    /\ last = [op |-> "initialize_schema", arg |-> NoBody]
    /\ resp = [status |-> "done", body |-> NoBody]

Init == schema \in {"api", "import"} /\ InitTables
InitApi == schema = "api" /\ InitTables
InitImport == schema = "import" /\ InitTables

Next ==
    \/ \E c \in CustomerInputs : create_customer(c)
    \/ \E id \in 1..MaxCustId : read_customer(id)
    \/ \E id \in 1..MaxCustId, c \in CustomerInputs : update_customer(id, c)
    \/ \E id \in 1..MaxCustId : delete_customer(id)
    \/ \E it \in ItemInputs : create_item(it)
    \/ \E id \in 1..MaxItemId : read_item(id)
    \/ \E id \in 1..MaxItemId, it \in ItemInputs : update_item(id, it)
    \/ \E id \in 1..MaxItemId : delete_item(id)
    \/ \E o \in OrderInputs : create_order(o)
    \/ \E id \in 1..MaxOrderId : read_order(id)
    \/ \E id \in 1..MaxOrderId : delete_order(id)
    \/ \E b \in BulkInputs : create_bulk_order(b)
    \/ \E d \in ImportInputs : populate_database(d)

Spec == Init /\ [][Next]_vars
SpecApi == InitApi /\ [][Next]_vars
SpecImport == InitImport /\ [][Next]_vars

\* ---------------------------------------------------------------- properties
\* the references of a request or row that resolve in the tables before the step
CustomerExists(id) == id \in Ids(customers)
ItemExists(id) == id \in Ids(items)

\* C1: create_order with a customer id or item id that has no row writes
\* nothing and answers with a reference error (400/409)
C1_CreateOrderRejectsMissingRef ==
    [][ ( /\ last'.op = "create_order"
          /\ \/ ~CustomerExists(last'.arg.customer_id)
             \/ ~ItemExists(last'.arg.item_id) )
        => ( /\ store' = store
             /\ resp'.status \in {"400", "409"} ) ]_vars

\* C2: create_bulk_order is all-or-nothing: N entries that all resolve add
\* exactly N order rows; a batch with an unresolved entry adds none and fails
BatchResolves(b) ==
    \A k \in 1..Len(b) : CustomerExists(b[k].customer_id) /\ ItemExists(b[k].item_id)

C2_BulkAllOrNothing ==
    [][ last'.op = "create_bulk_order"
        => IF BatchResolves(last'.arg)
           THEN /\ orders \subseteq orders'
                /\ Cardinality(orders') = Cardinality(orders) + Len(last'.arg)
                /\ resp'.status = "200"
           ELSE /\ store' = store
                /\ resp'.status # "200" ]_vars

\* C3: in every reachable state each order's customer, each line's item and
\* each line's order is an existing row
C3_ReferentialIntegrity ==
    IF schema = "api"
    THEN \A o \in orders : o.customer_id \in Ids(customers) /\ o.item_id \in Ids(items)
    ELSE /\ \A o \in orders : o.cust_id \in Ids(customers)
         /\ \A l \in item_list : l.item_id \in Ids(items) /\ l.order_id \in Ids(orders)

\* C4: deleting a customer or item row that an order or order line refers to
\* fails with a conflict (409) and leaves every table unchanged
CustomerReferenced(id) ==
    IF schema = "api" THEN \E o \in orders : o.customer_id = id
                      ELSE \E o \in orders : o.cust_id = id

ItemReferenced(id) ==
    IF schema = "api" THEN \E o \in orders : o.item_id = id
                      ELSE \E l \in item_list : l.item_id = id

C4_DeleteReferencedConflicts ==
    [][ /\ ( /\ last'.op = "delete_customer"
             /\ CustomerExists(last'.arg)
             /\ CustomerReferenced(last'.arg) )
           => (store' = store /\ resp'.status = "409")
        /\ ( /\ last'.op = "delete_item"
             /\ ItemExists(last'.arg)
             /\ ItemReferenced(last'.arg) )
           => (store' = store /\ resp'.status = "409") ]_vars

\* C5: delete_order of an existing order removes that order row and every
\* item_list row of that order, and nothing else
C5_DeleteOrderCascades ==
    [][ (last'.op = "delete_order" /\ last'.arg \in Ids(orders))
        => ( /\ orders' = { o \in orders : o.id # last'.arg }
             /\ item_list' = { l \in item_list : l.order_id # last'.arg }
             /\ customers' = customers
             /\ items' = items ) ]_vars

\* C6: deleting a customer, item or order by an id that no row of that table
\* has answers 404 and leaves every table as it was
C6_DeleteMissingIsNotFound ==
    [][ /\ (last'.op = "delete_customer" /\ last'.arg \notin Ids(customers))
           => (resp'.status = "404" /\ store' = store)
        /\ (last'.op = "delete_item" /\ last'.arg \notin Ids(items))
           => (resp'.status = "404" /\ store' = store)
        /\ (last'.op = "delete_order" /\ last'.arg \notin Ids(orders))
           => (resp'.status = "404" /\ store' = store) ]_vars

\* a delete of a missing order id was answered 404 while the tables hold rows
C6_Witness ==
    /\ last.op = "delete_order"
    /\ resp.status = "404"
    /\ orders # {}
    /\ customers # {}
    /\ items # {}

\* C7: right after create_customer / create_item, reading the returned id
\* gives exactly the created field values together with that id
C7_CreateReadRoundTrip ==
    /\ last.op = "create_customer"
       => /\ resp.status = "200"
          /\ ReadCustomer(customers, resp.body.id) =
               [status |-> "200",
                body |-> [id |-> resp.body.id, name |-> last.arg.name,
                          phone |-> last.arg.phone]]
    /\ last.op = "create_item"
       => /\ resp.status = "200"
          /\ ReadItem(items, resp.body.id) =
               [status |-> "200",
                body |-> [id |-> resp.body.id, name |-> last.arg.name,
                          price |-> last.arg.price]]

\* a customer was created next to an earlier row that holds other values
C7_Witness ==
    /\ last.op = "create_customer"
    /\ \E r \in customers :
         r.id # resp.body.id /\ r.name # last.arg.name /\ r.phone # last.arg.phone

\* C8: an import in which two or more records share a phone inserts exactly
\* one customer row for that phone, and every order made from those records
\* has that row's id as its customer id
SharedPhones(data) ==
    { data[k].phone : k \in { i \in 1..Len(data) :
                                \E j \in 1..Len(data) : j # i /\ data[j].phone = data[i].phone } }

C8_ImportOneRowPerSharedPhone ==
    [][ (last'.op = "populate_database" /\ resp'.status = "done" /\ schema = "import")
        => \A p \in SharedPhones(last'.arg) :
             LET inserted == { c \in customers' : c.id \notin Ids(customers) /\ c.phone = p }
             IN /\ Cardinality(inserted) = 1
                /\ \A k \in 1..Len(last'.arg) :
                     last'.arg[k].phone = p
                     => \E o \in orders' :
                          /\ o.id = NextRowid(Ids(orders)) + k - 1
                          /\ \A c \in inserted : o.cust_id = c.id ]_vars

\* C9: an import inserts no customer row whose phone, and no item row whose
\* name, already belongs to a row of the table
C9_ImportDedupsAgainstStore ==
    [][ (last'.op = "populate_database" /\ resp'.status = "done")
        => /\ \A c \in customers' :
                c.id \notin Ids(customers) => ~ \E e \in customers : e.phone = c.phone
           /\ \A i \in items' :
                i.id \notin Ids(items) => ~ \E e \in items : e.name = i.name ]_vars

\* C10: read_order answers 404 exactly for the ids that no order row has, and
\* answers with the order's view for every id that an order row has
C10_ReadOrderNotFoundIffAbsent ==
    \A id \in 1..MaxOrderId :
      LET r == ReadOrder(schema, customers, items, orders, id) IN
        IF id \in Ids(orders)
        THEN r.status = "200" /\ r.body.id = id
        ELSE r.status = "404"

====
